---- MODULE Spec2Model ----
(***************************************************************************)
(* xlmdb: search(db, options) over an ordered key-value collection.       *)
(* Strings are sequences of UTF-16 code units.  A JavaScript value is a   *)
(* record [t, s, n]: t is the kind, s the text of a string, n a number or *)
(* the identity of an object; an object's members live in heap[n] in the  *)
(* order for...in enumerates them.                                         *)
(***************************************************************************)
EXTENDS Integers, Sequences, FiniteSets, TLC

VARIABLES db, heap, options, pc, ret, log

vars == <<db, heap, options, pc, ret, log>>

\* ------------------------------------------------------------------ bounds
MaxKeyLen == 2
MaxEntries == 4
MaxMembers == 2
MaxHeapSize == 3
MaxStack == 6
MaxLimit == 2

\* --------------------------------------------------------------- constants
\* the code unit of the sentinel appended to the prefix
Sentinel == 65535

\* ------------------------------------------------------------------ values
None == <<>>
Some(x) == <<x>>

Str(s) == [t |-> "string", s |-> s, n |-> 0]
Num(n) == [t |-> "number", s |-> <<>>, n |-> n]
Null == [t |-> "null", s |-> <<>>, n |-> 0]
Undefined == [t |-> "undefined", s |-> <<>>, n |-> 0]
Ref(o) == [t |-> "object", s |-> <<>>, n |-> o]
\* a member whose read raises (an accessor property)
Getter == [t |-> "getter", s |-> <<>>, n |-> 0]

Member(k, v) == [k |-> k, v |-> v]

\* the member of object o named k, undefined when o has none
Get(o, k) ==
  IF \E i \in 1..Len(heap[o]) : heap[o][i].k = k
  THEN heap[o][CHOOSE i \in 1..Len(heap[o]) : heap[o][i].k = k].v
  ELSE Undefined

\* "Pen", "pen", "PEN", "Book", "a pen"
Pen == <<80, 101, 110>>
pen == <<112, 101, 110>>
PEN == <<80, 69, 78>>
Book == <<66, 111, 111, 107>>
aPen == <<97, 32, 112, 101, 110>>

\* String.prototype.toLowerCase on the letters A-Z
LowerUnit(c) == IF c >= 65 /\ c <= 90 THEN c + 32 ELSE c
toLowerCase(s) == [i \in 1..Len(s) |-> LowerUnit(s[i])]

\* String.prototype.includes
includes(s, text) ==
  \E i \in 0..(Len(s) - Len(text)) :
    \A j \in 1..Len(text) : s[i + j] = text[j]

\* String.prototype.startsWith
startsWith(s, p) ==
  /\ Len(p) <= Len(s)
  /\ \A j \in 1..Len(p) : s[j] = p[j]

\* the order of keys in the store: lexicographic by code unit
KeyLess(a, b) ==
  \E i \in 1..(Len(b)) :
    /\ \A j \in 1..(i - 1) : j <= Len(a) /\ a[j] = b[j]
    /\ i - 1 <= Len(a)
    /\ (i > Len(a) \/ a[i] < b[i])

KeyLeq(a, b) == a = b \/ KeyLess(a, b)

RECURSIVE SortedKeys(_)
SortedKeys(S) ==
  IF S = {} THEN <<>>
  ELSE LET m == CHOOSE x \in S : \A y \in S : KeyLeq(x, y)
       IN <<m>> \o SortedKeys(S \ {m})

\* db.getRange({start, end}): the entries with start <= key < end, ascending
getRange(d, start, end) ==
  LET inRange == {k \in DOMAIN d :
                    /\ KeyLeq(start, k)
                    /\ (end = None \/ KeyLess(k, end[1]))}
      ks == SortedKeys(inRange)
  IN [i \in 1..Len(ks) |-> [key |-> ks[i], value |-> d[ks[i]]]]

\* ------------------------------------------------- caller-supplied closures
Bool(b) == IF b THEN "true" ELSE "false"

\* reading member k of a value: TypeError on null and undefined, the
\* accessor's own error on a raising accessor
Prop(value, k) == IF value.t = "object" THEN Get(value.n, k) ELSE Undefined
PropThrows(value, k) ==
  \/ value.t \in {"null", "undefined"}
  \/ Prop(value, k).t = "getter"

\* p => p.v < 5
cheap(value, key) ==
  IF PropThrows(value, "v") THEN "throw"
  ELSE Bool(Prop(value, "v").t = "number" /\ Prop(value, "v").n < 5)

\* (_, key) => key !== "k1"
notFirst(value, key) == Bool(key # <<107, 49>>)

\* p => p.name.length > 3
longName(value, key) ==
  IF PropThrows(value, "name") \/ PropThrows(Prop(value, "name"), "length")
  THEN "throw"
  ELSE Bool(Len(Prop(value, "name").s) > 3)

FilterNames == {"cheap", "notFirst", "longName"}

ApplyFilter(f, value, key) ==
  CASE f = "cheap" -> cheap(value, key)
    [] f = "notFirst" -> notFirst(value, key)
    [] f = "longName" -> longName(value, key)

Cmp(n) == [out |-> "ok", n |-> n]
CmpThrow == [out |-> "throw", n |-> 0]

\* (a, b) => a.v - b.v and (a, b) => a.name.length - b.name.length
Compare(c, a, b) ==
  CASE c = "asc" ->
         IF PropThrows(a, "v") \/ PropThrows(b, "v") THEN CmpThrow
         ELSE Cmp(Prop(a, "v").n - Prop(b, "v").n)
    [] c = "byLen" ->
         IF \/ PropThrows(a, "name") \/ PropThrows(Prop(a, "name"), "length")
            \/ PropThrows(b, "name") \/ PropThrows(Prop(b, "name"), "length")
         THEN CmpThrow
         ELSE Cmp(Len(Prop(a, "name").s) - Len(Prop(b, "name").s))

SortNames == {"asc", "byLen"}

\* ------------------------------------------------------------- deep search
\* typeof obj
typeof(obj) == IF obj.t = "null" THEN "object" ELSE obj.t

Walk(out, visited, descents) ==
  [out |-> out, visited |-> visited, descents |-> descents]

RECURSIVE deepSearchHelper(_, _, _, _, _)
RECURSIVE deepMembers(_, _, _, _, _, _)

\* no cycle guard: no object ever counts as visited
visitedHasNever(visited, o) == FALSE

\* visited.has(obj)
visitedHas(visited, o) == o \in visited

\* the for...in loop of deepSearchHelper over the members of object o, from
\* member i on
deepMembers(o, i, text, visited, descents, depth) ==
  IF i > Len(heap[o]) THEN Walk("false", visited, descents)
  ELSE IF heap[o][i].v.t = "getter" THEN Walk("throw", visited, descents)
  ELSE LET r == deepSearchHelper(heap[o][i].v, text, visited, descents, depth + 1)
       IN IF r.out = "false"
          THEN deepMembers(o, i + 1, text, r.visited, r.descents, depth)
          ELSE r

\* the string test without obj.toLowerCase()
deepSearchHelperCaseSensitive(obj, text, visited, descents, depth) ==
  IF depth > MaxStack THEN Walk("throw", visited, descents)
  ELSE IF typeof(obj) = "string"
  THEN Walk(Bool(includes(obj.s, text)), visited, descents)
  ELSE IF typeof(obj) = "object" /\ obj.t # "null"
  THEN IF visitedHas(visited, obj.n)
       THEN Walk("false", visited, descents)
       ELSE deepMembers(obj.n, 1, text, visited \cup {obj.n},
                        Append(descents, obj.n), depth)
  ELSE Walk("false", visited, descents)

\* deepSearchHelper(obj, text, visited): descents lists the objects whose
\* members were enumerated, depth counts the frames on the call stack (a
\* RangeError past MaxStack)
deepSearchHelper(obj, text, visited, descents, depth) ==
  IF depth > MaxStack THEN Walk("throw", visited, descents)
  ELSE IF typeof(obj) = "string"
  THEN Walk(Bool(includes(toLowerCase(obj.s), text)), visited, descents)
  ELSE IF typeof(obj) = "object" /\ obj.t # "null"
  THEN IF visitedHas(visited, obj.n)
       THEN Walk("false", visited, descents)
       ELSE deepMembers(obj.n, 1, text, visited \cup {obj.n},
                        Append(descents, obj.n), depth)
  ELSE Walk("false", visited, descents)

\* ------------------------------------------------------------------ search
\* what one call did, in order: op "pull" (record i taken from the range),
\* "test" (predicate j applied to record i; d the objects the deep search
\* descended into), "sort" (the comparator sort)
Event(op, i, j, out, d) == [op |-> op, i |-> i, j |-> j, out |-> out, d |-> d]

Filter(name) == [kind |-> "filter", name |-> name, text |-> <<>>]
\* (value) => deepSearchHelper(value, searchText)
Deep(text) == [kind |-> "deep", name |-> "", text |-> text]

\* options.prefix ?? ""
rangeStart(o) == IF o.prefix # None THEN o.prefix[1] ELSE <<>>

\* start ? start + "￿" : undefined
rangeEnd(start) == IF start # <<>> THEN Some(Append(start, Sentinel)) ELSE None

\* (options.query || options.deepSearch)?.toLowerCase()
searchTextOfQueryFirst(o) ==
  LET term == IF o.query # None /\ o.query[1] # <<>>
              THEN o.query ELSE o.deepSearch
  IN IF term = None THEN None ELSE Some(toLowerCase(term[1]))

\* (options.deepSearch || options.query)?.toLowerCase()
searchTextOf(o) ==
  LET term == IF o.deepSearch # None /\ o.deepSearch[1] # <<>>
              THEN o.deepSearch ELSE o.query
  IN IF term = None THEN None ELSE Some(toLowerCase(term[1]))

\* [...(options.filters ?? [])] and, if (searchText), the deep-search predicate
allFiltersOf(o) ==
  LET searchText == searchTextOf(o)
  IN [j \in 1..Len(o.filters) |-> Filter(o.filters[j])]
       \o (IF searchText # None /\ searchText[1] # <<>>
           THEN <<Deep(searchText[1])>> ELSE <<>>)

\* f(value): the key is not handed to the filter
callWithoutKey(f, value, key) ==
  IF f.kind = "deep"
  THEN deepSearchHelper(value, f.text, {}, <<>>, 1)
  ELSE Walk(ApplyFilter(f.name, value, <<>>), {}, <<>>)

\* one predicate applied to (value, key)
call(f, value, key) ==
  IF f.kind = "deep"
  THEN deepSearchHelper(value, f.text, {}, <<>>, 1)
  ELSE Walk(ApplyFilter(f.name, value, key), {}, <<>>)

\* allFilters.every((f) => f(value, key)) on record i, from predicate j on
RECURSIVE every(_, _, _, _, _)
every(allFilters, j, e, i, lg) ==
  IF j > Len(allFilters) THEN [out |-> "true", log |-> lg]
  ELSE LET r == call(allFilters[j], e.value, e.key)
           lg1 == Append(lg, Event("test", i, j, r.out, r.descents))
       IN IF r.out = "true" THEN every(allFilters, j + 1, e, i, lg1)
          ELSE [out |-> r.out, log |-> lg1]

\* results.length > limit
limitReachedLate(len, limit) == limit # None /\ len > limit[1]

\* results.length >= limit, limit being options.limit ?? Infinity
limitReached(len, limit) == limit # None /\ len >= limit[1]

Outcome(status, value, lg) == [status |-> status, value |-> value, log |-> lg]

\* the error is caught and what was accumulated is returned
raiseCaught(results, lg) == Outcome("returned", Some(results), lg)

\* an error leaving search: the caller gets no value
raise(results, lg) == Outcome("thrown", None, lg)

\* the for...of loop over the range, from record i on
RECURSIVE Scan(_, _, _, _, _, _)
Scan(iterable, i, results, allFilters, limit, lg) ==
  IF i > Len(iterable) THEN Outcome("returned", Some(results), lg)
  ELSE LET ev == every(allFilters, 1, iterable[i], i,
                       Append(lg, Event("pull", i, 0, "", <<>>)))
       IN IF ev.out = "throw" THEN raise(results, ev.log)
          ELSE IF ev.out = "false"
          THEN Scan(iterable, i + 1, results, allFilters, limit, ev.log)
          ELSE IF limitReached(Len(results) + 1, limit)
          THEN Outcome("returned", Some(Append(results, iterable[i])), ev.log)
          ELSE Scan(iterable, i + 1, Append(results, iterable[i]),
                    allFilters, limit, ev.log)

\* Array.prototype.sort: a stable sort; x goes after the last element of the
\* sorted list that does not compare greater than it
RECURSIVE insert(_, _, _, _)
insert(sorted, j, x, c) ==
  IF j = 0 THEN [out |-> "ok", list |-> <<x>> \o sorted]
  ELSE LET r == Compare(c, sorted[j].value, x.value)
       IN IF r.out = "throw" THEN [out |-> "throw", list |-> sorted]
          ELSE IF r.n > 0 THEN insert(sorted, j - 1, x, c)
          ELSE [out |-> "ok",
                list |-> SubSeq(sorted, 1, j) \o <<x>> \o SubSeq(sorted, j + 1, Len(sorted))]

RECURSIVE sortFrom(_, _, _, _)
sortFrom(results, i, sorted, c) ==
  IF i > Len(results) THEN [out |-> "ok", list |-> sorted]
  ELSE LET r == insert(sorted, Len(sorted), results[i], c)
       IN IF r.out = "throw" THEN r
          ELSE sortFrom(results, i + 1, r.list, c)

\* results.sort((a, b) => options.sort(a.value, b.value))
sort(results, c) == sortFrom(results, 1, <<>>, c)

\* if (options.sort) results.sort(...); return results
finish(scanned, o) ==
  IF scanned.status = "thrown" \/ o.sort = None THEN scanned
  ELSE LET r == sort(scanned.value[1], o.sort[1])
       IN IF r.out = "throw"
          THEN raise(scanned.value[1],
                     Append(scanned.log, Event("sort", 0, 0, "throw", <<>>)))
          ELSE Outcome("returned", Some(r.list),
                       Append(scanned.log, Event("sort", 0, 0, "ok", <<>>)))

\* the whole range is filtered and sorted, then cut with slice(0, limit)
searchSortThenLimit(d, o) ==
  LET start == rangeStart(o)
      end == rangeEnd(start)
      iterable == getRange(d, start, end)
      all == finish(Scan(iterable, 1, <<>>, allFiltersOf(o), None, <<>>), o)
  IN IF all.status = "thrown" \/ o.limit = None THEN all
     ELSE LET len == Len(all.value[1])
              n == IF o.limit[1] > len THEN len
                   ELSE IF o.limit[1] >= 0 THEN o.limit[1]
                   ELSE IF len + o.limit[1] > 0 THEN len + o.limit[1] ELSE 0
          IN Outcome("returned", Some(SubSeq(all.value[1], 1, n)), all.log)

search(d, o) ==
  LET start == rangeStart(o)
      end == rangeEnd(start)
      iterable == getRange(d, start, end)
  IN finish(Scan(iterable, 1, <<>>, allFiltersOf(o), o.limit, <<>>), o)

\* -------------------------------------------------------------- operations
\* rangeOptions is left at its default, {}
Options(prefix, limit, srt, filters, deepSearch, query) ==
  [prefix |-> prefix, limit |-> limit, sort |-> srt, filters |-> filters,
   deepSearch |-> deepSearch, query |-> query]

\* search(db): options = {}
NoOptions == Options(None, None, None, <<>>, None, None)

\* await db.put(key, value)
Put(key, value) ==
  /\ pc = "idle"
  /\ Cardinality(DOMAIN db \cup {key}) <= MaxEntries
  /\ db' = [k \in DOMAIN db \cup {key} |-> IF k = key THEN value ELSE db[k]]
  /\ UNCHANGED <<heap, options, pc, ret, log>>

\* await db.remove(key)
Remove(key) ==
  /\ pc = "idle"
  /\ key \in DOMAIN db
  /\ db' = [k \in DOMAIN db \ {key} |-> db[k]]
  /\ UNCHANGED <<heap, options, pc, ret, log>>

\* const results = search(db, o): the call runs to its return or its throw
Search(o) ==
  /\ pc = "idle"
  /\ \E r \in {search(db, o)} :
       /\ pc' = r.status
       /\ ret' = r.value
       /\ log' = r.log
  /\ options' = o
  /\ UNCHANGED <<db, heap>>

\* the caller uses the returned list, or handles the error, and goes on
Consume ==
  /\ pc # "idle"
  /\ pc' = "idle"
  /\ ret' = None
  /\ log' = <<>>
  /\ options' = NoOptions
  /\ UNCHANGED <<db, heap>>

Start(h) ==
  /\ db = <<>>
  /\ heap = h
  /\ options = NoOptions
  /\ pc = "idle"
  /\ ret = None
  /\ log = <<>>

\* sequences over S of length lo..hi
RECURSIVE SeqsOfLen(_, _)
SeqsOfLen(S, n) ==
  IF n = 0 THEN {<<>>}
  ELSE {Append(q, x) : q \in SeqsOfLen(S, n - 1), x \in S}
SeqsUpTo(S, lo, hi) == UNION {SeqsOfLen(S, n) : n \in lo..hi}

\* ---- products: records {name?, v} under keys k1..k4, filters, limit, sort
\* k1..k4
ProductKeys == {<<107, 49>>, <<107, 50>>, <<107, 51>>, <<107, 52>>}
\* {name: "Pen", v: 5}, {name: "Book", v: 1}, {v: 9, get name() { throw ... }},
\* {name: "Book", v: 2}
ProductHeap ==
  <<  <<Member("name", Str(Pen)), Member("v", Num(5))>>,
      <<Member("name", Str(Book)), Member("v", Num(1))>>,
      <<Member("v", Num(9)), Member("name", Getter)>>,
      <<Member("name", Str(Book)), Member("v", Num(2))>>  >>
ProductValues == {Ref(o) : o \in 1..4}
Limits == {None} \cup {Some(n) : n \in (0 - 1)..MaxLimit}
\* lists of at most two different filters
FilterLists ==
  {f \in SeqsUpTo(FilterNames, 0, 2) : Len(f) = Cardinality({f[j] : j \in 1..Len(f)})}
ProductOptions ==
  {Options(None, l, s, f, None, None) :
     l \in Limits, s \in {None} \cup {Some(c) : c \in SortNames}, f \in FilterLists}
  \cup {Options(None, l, None, f, Some(PEN), None) : l \in Limits, f \in FilterLists}

Init == Start(ProductHeap)
Next ==
  \/ \E k \in ProductKeys, v \in ProductValues : Put(k, v)
  \/ \E k \in ProductKeys : Remove(k)
  \/ \E o \in ProductOptions : Search(o)
  \/ Consume
Spec == Init /\ [][Next]_vars

\* ---- items: values that are strings, arrays and nested arrays, which may
\* ---- hold themselves; deepSearch and query
\* i:1, i:2
ItemKeys == {<<105, 58, 49>>, <<105, 58, 50>>}
Objs == {1, 2}
ElementValues == {Str(Pen), Num(7), Null} \cup {Ref(o) : o \in Objs}
RECURSIVE Sum(_, _)
Sum(f, S) == IF S = {} THEN 0 ELSE LET x == CHOOSE x \in S : TRUE IN f[x] + Sum(f, S \ {x})
\* every heap of arrays of at most MaxMembers elements, MaxHeapSize in all
ItemHeaps ==
  {[o \in Objs |-> [i \in 1..Len(h[o]) |-> Member(ToString(i - 1), h[o][i])]] :
     h \in {g \in [Objs -> SeqsUpTo(ElementValues, 0, MaxMembers)] :
              Sum([o \in Objs |-> Len(g[o])], Objs) <= MaxHeapSize}}
ItemValues == {Str(aPen)} \cup {Ref(o) : o \in Objs}
ItemOptions ==
  {Options(None, None, None, <<>>, d, q) :
     d \in {None, Some(<<>>), Some(PEN), Some(Book)},
     q \in {None, Some(<<>>), Some(pen)}}

InitDeep == \E h \in ItemHeaps : Start(h)
NextDeep ==
  \/ \E k \in ItemKeys, v \in ItemValues : Put(k, v)
  \/ \E k \in ItemKeys : Remove(k)
  \/ \E o \in ItemOptions : Search(o)
  \/ Consume
SpecDeep == InitDeep /\ [][NextDeep]_vars

\* ---- keyed strings: keys over "a", "b" and U+FFFF, prefix searches
KeyUnits == {97, 98, Sentinel}
PrefixKeys == SeqsUpTo(KeyUnits, 1, MaxKeyLen)
PrefixOptions ==
  {Options(p, None, None, <<>>, None, None) :
     p \in {None} \cup {Some(x) : x \in SeqsUpTo(KeyUnits, 0, MaxKeyLen)}}

InitPrefix == Start(<<>>)
NextPrefix ==
  \/ \E k \in PrefixKeys : Put(k, Str(Pen))
  \/ \E k \in PrefixKeys : Remove(k)
  \/ \E o \in PrefixOptions : Search(o)
  \/ Consume
SpecPrefix == InitPrefix /\ [][NextPrefix]_vars

\* ------------------------------------------------- what the claims refer to
Min(a, b) == IF a < b THEN a ELSE b
Take(q, n) == SubSeq(q, 1, Min(n, Len(q)))
KeysOf(q) == [i \in 1..Len(q) |-> q[i].key]
EntriesOf(ks) == [i \in 1..Len(ks) |-> [key |-> ks[i], value |-> db[ks[i]]]]

\* the objects reachable from the objects in S
RECURSIVE Reach(_)
Reach(S) ==
  LET objs == S \cup {x \in DOMAIN heap :
                        \E o \in S : \E i \in 1..Len(heap[o]) :
                          heap[o][i].v = Ref(x)}
  IN IF objs = S THEN S ELSE Reach(objs)

\* the strings found at any depth of a value
StringsIn(value) ==
  IF value.t = "string" THEN {value.s}
  ELSE IF value.t = "object"
  THEN UNION {{heap[o][i].v.s :
                 i \in {i \in 1..Len(heap[o]) : heap[o][i].v.t = "string"}} :
              o \in Reach({value.n})}
  ELSE {}

\* some string at some depth of the value contains t, both in lower case
DeepMatches(value, t) ==
  \E str \in StringsIn(value) : includes(toLowerCase(str), toLowerCase(t))

\* every filter of o returns true on (value, key)
FiltersAccept(o, k) ==
  \A j \in 1..Len(o.filters) : ApplyFilter(o.filters[j], db[k], k) = "true"

\* the keys whose entry passes the filters and the deep-search term t of a
\* call (None: no term)
Passing(o, t) ==
  {k \in DOMAIN db : FiltersAccept(o, k) /\ (t = None \/ DeepMatches(db[k], t[1]))}

\* e goes before f under comparator c, ties in key order
Before(e, f, c) ==
  \/ Compare(c, e.value, f.value).n < 0
  \/ Compare(c, e.value, f.value).n = 0 /\ KeyLess(e.key, f.key)

RECURSIVE SortedBy(_, _)
SortedBy(S, c) ==
  IF S = {} THEN <<>>
  ELSE LET m == CHOOSE e \in S : \A f \in S \ {e} : Before(e, f, c)
       IN <<m>> \o SortedBy(S \ {m}, c)

Range(q) == {q[i] : i \in 1..Len(q)}

\* ------------------------------------------------------------------ claims
\* C1: for every prefix P and every collection holding keys that start with P
\* and keys that do not, search(collection, {prefix: P}) returns exactly the
\* entries whose key starts with P, in ascending key order.
C1_PrefixExact ==
  (/\ pc = "returned" /\ options.prefix # None
   /\ \E k \in DOMAIN db : startsWith(k, options.prefix[1])
   /\ \E k \in DOMAIN db : ~startsWith(k, options.prefix[1]))
    => ret = Some(EntriesOf(SortedKeys({k \in DOMAIN db : startsWith(k, options.prefix[1])})))

NoTerm(o) == o.deepSearch = None /\ o.query = None

\* C2: with no limit, no sort and no deep-search term, search returns exactly
\* the entries of the range on which every filter returns true for
\* (value, key), in ascending key order, each with its stored value; with no
\* filter it returns every entry.
C2_FiltersAndComposed ==
  (pc = "returned" /\ options.limit = None /\ options.sort = None /\ NoTerm(options))
    => /\ ret = Some(EntriesOf(SortedKeys(Passing(options, None))))
       /\ (options.filters = <<>> => KeysOf(ret[1]) = SortedKeys(DOMAIN db))

\* two filters, one of them reading the key, kept some entries and dropped others
C2_Witness ==
  /\ pc = "returned" /\ options.limit = None /\ options.sort = None /\ NoTerm(options)
  /\ options.filters = <<"cheap", "notFirst">>
  /\ Len(ret[1]) = 2
  /\ Cardinality(DOMAIN db) = 4
  /\ <<107, 49>> \in DOMAIN db /\ cheap(db[<<107, 49>>], <<107, 49>>) = "true"

\* the entries the scan accumulates under a limit: the first L that pass, in
\* key order
FirstPassing(o, t, L) == Range(Take(EntriesOf(SortedKeys(Passing(o, t))), L))

SortAndLimit ==
  /\ pc = "returned"
  /\ options.sort # None /\ options.limit # None /\ options.limit[1] >= 1

\* the comparator raises on no pair of the entries in S
Comparable(S, c) == \A e \in S, f \in S : Compare(c, e.value, f.value).out = "ok"

AllPassing == Range(EntriesOf(SortedKeys(Passing(options, options.deepSearch))))

\* C3: with a sort comparator and a limit N, search returns the first N
\* entries of the sorted list of every entry that passes the filters.
C3_TopNBySortOrder ==
  (SortAndLimit /\ Comparable(AllPassing, options.sort[1]))
    => ret = Some(Take(SortedBy(AllPassing, options.sort[1]), options.limit[1]))

\* k1 {v: 5}, k2 {v: 1}, k3 {v: 9}, k4 {v: 2}, limit 2, ascending v
LimitSortExample ==
  /\ db = [k \in ProductKeys |->
             CASE k = <<107, 49>> -> Ref(1) [] k = <<107, 50>> -> Ref(2)
               [] k = <<107, 51>> -> Ref(3) [] k = <<107, 52>> -> Ref(4)]
  /\ options = Options(None, Some(2), Some("asc"), <<>>, None, None)

C5_NonPositiveLimitEmpty ==
  (pc = "returned" /\ options.limit # None /\ options.limit[1] <= 0)
    => ret = Some(<<>>)

\* C9: with a limit L >= 1 and no sort, search returns the first
\* min(L, number of matches) entries that pass the filters, in ascending key
\* order, and never more than L entries.
C9_LimitTruncates ==
  (pc = "returned" /\ options.sort = None /\ options.limit # None /\ options.limit[1] >= 1)
    => /\ ret = Some(Take(EntriesOf(SortedKeys(Passing(options, options.deepSearch))),
                          options.limit[1]))
       /\ Len(ret[1]) <= options.limit[1]
       /\ Len(ret[1]) = Min(options.limit[1],
                            Cardinality(Passing(options, options.deepSearch)))

\* four entries pass, the limit is 2, the first two keys are returned
C9_Witness ==
  /\ pc = "returned" /\ options.sort = None /\ options.limit = Some(2)
  /\ Cardinality(Passing(options, options.deepSearch)) = 4
  /\ KeysOf(ret[1]) = <<<<107, 49>>, <<107, 50>>>>

Raised == \E n \in 1..Len(log) : log[n].out = "throw"
Pulled == Cardinality({n \in 1..Len(log) : log[n].op = "pull"})

\* C10: when a filter, the comparator or the deep-search traversal raises,
\* the error leaves the call, nothing is read or tested after it, and the
\* caller gets no list.
C10_ErrorPropagates ==
  /\ Raised => /\ pc = "thrown"
               /\ ret = None
               /\ \A n \in 1..Len(log) : log[n].out = "throw" => n = Len(log)
  /\ (/\ pc # "idle" /\ options.limit = None /\ options.filters # <<>>
      /\ \E k \in DOMAIN db : ApplyFilter(options.filters[1], db[k], k) = "throw")
       => pc = "thrown" /\ ret = None

\* predicate j of record i raised after an earlier record had passed, with
\* records still unread
RaisedAt(kind) ==
  /\ pc = "thrown"
  /\ LET e == log[Len(log)]
     IN /\ e.op = "test"
        /\ allFiltersOf(options)[e.j].kind = kind
        /\ \E n \in 1..Len(log) :
             /\ log[n].op = "test" /\ log[n].out = "true" /\ log[n].i < e.i
             /\ log[n].j = Len(allFiltersOf(options))
  /\ Pulled < Cardinality(DOMAIN db)

C10_WitnessFilter == RaisedAt("filter")
C10_WitnessDeep == RaisedAt("deep")
C10_WitnessSort ==
  /\ pc = "thrown" /\ log[Len(log)].op = "sort"
  /\ Pulled = 3

C10_Witness == C10_WitnessFilter /\ Len(options.filters) = 2

\* the outcome of a call as the caller sees it
Seen(r) == <<r.status, r.value>>

QueryAlone(q) == Options(None, None, None, <<>>, None, Some(q))
DeepAlone(d) == Options(None, None, None, <<>>, Some(d), None)

\* search with {query: q} alone returns what search with {deepSearch: q}
\* alone returns
AliasEquivalent ==
  (pc # "idle" /\ options.deepSearch = None /\ options.query # None)
    => <<pc, ret>> = Seen(search(db, DeepAlone(options.query[1])))

BothGiven == pc # "idle" /\ options.deepSearch # None /\ options.query # None

\* C6 as claimed: for every d and q, {query: q} alone equals {deepSearch: q}
\* alone, and {deepSearch: d, query: q} equals {deepSearch: d} alone.
C6_DeepSearchAlwaysGoverns ==
  /\ AliasEquivalent
  /\ BothGiven => <<pc, ret>> = Seen(search(db, DeepAlone(options.deepSearch[1])))

\* C6: {query: q} alone equals {deepSearch: q} alone; {deepSearch: d,
\* query: q} equals {deepSearch: d} alone when d is not the empty string, and
\* equals {query: q} alone when d is the empty string.
C6_DeepSearchGovernsUnlessEmpty ==
  /\ AliasEquivalent
  /\ (BothGiven /\ options.deepSearch[1] # <<>>)
       => <<pc, ret>> = Seen(search(db, DeepAlone(options.deepSearch[1])))
  /\ (BothGiven /\ options.deepSearch[1] = <<>>)
       => <<pc, ret>> = Seen(search(db, QueryAlone(options.query[1])))

\* deepSearch "Book" and query "pen" were both given, deepSearch alone
\* decided: the record that "pen" would match is not returned
C6_Witness ==
  /\ pc = "returned"
  /\ options.deepSearch = Some(Book) /\ options.query = Some(pen)
  /\ ret = Some(<<>>)
  /\ search(db, QueryAlone(pen)).value # Some(<<>>)

OnlyDeepSearch == pc # "idle" /\ options.deepSearch # None /\ options.query = None

\* C7 as claimed: with a deep-search term t a record is returned if and only
\* if some string at some depth of its value contains t, compared in lower case.
C7_MatchesIffSomeString ==
  OnlyDeepSearch
    => /\ pc = "returned"
       /\ Range(KeysOf(ret[1])) = {k \in DOMAIN db : DeepMatches(db[k], options.deepSearch[1])}

\* C7: with a deep-search term t that is not the empty string, a record is
\* returned if and only if some string at some depth of its value contains t,
\* compared in lower case; numbers and null never make a record match.
C7_MatchesIffSomeStringNonEmptyTerm ==
  (OnlyDeepSearch /\ options.deepSearch[1] # <<>>)
    => /\ pc = "returned"
       /\ Range(KeysOf(ret[1])) = {k \in DOMAIN db : DeepMatches(db[k], options.deepSearch[1])}
       /\ \A k \in Range(KeysOf(ret[1])) : db[k].t \in {"string", "object"}

\* "PEN" found "Pen" inside a nested array of one record and in the string
\* value of the other
C7_Witness ==
  /\ pc = "returned" /\ options = DeepAlone(PEN)
  /\ Len(ret[1]) = 2
  /\ \E k \in DOMAIN db : db[k] = Str(aPen)
  /\ \E k \in DOMAIN db :
       /\ db[k].t = "object"
       /\ \A i \in 1..Len(heap[db[k].n]) : heap[db[k].n][i].v.t # "string"
  /\ \E o \in Objs : \E i \in 1..Len(heap[o]) : heap[o][i].v \in {Null, Num(7)}

NoDuplicate(q) == \A a, b \in 1..Len(q) : q[a] = q[b] => a = b
DeepTests == {n \in 1..Len(log) : log[n].op = "test" /\ log[n].j = Len(options.filters) + 1}
\* the value of the record a test event is about
Tested(e) == getRange(db, <<>>, None)[e.i].value
\* object o lies on a cycle of references
OnCycle(o) == \E i \in 1..Len(heap[o]) : heap[o][i].v.t = "object" /\ o \in Reach({heap[o][i].v.n})

\* C8: the deep-search predicate returns on values that hold references back
\* to themselves or to an ancestor; it descends into each object at most once
\* per record and answers true exactly when a reachable string contains the term.
C8_TerminatesOnCycles ==
  \A n \in DeepTests :
    /\ log[n].out # "throw"
    /\ NoDuplicate(log[n].d)
    /\ log[n].out = Bool(DeepMatches(Tested(log[n]), searchTextOf(options)[1]))

\* two records reach the same two arrays, which hold each other; the string
\* lies behind the back reference; both records match, each after descending
\* into both arrays once
C8_Witness ==
  /\ pc = "returned" /\ Len(ret[1]) = 2
  /\ \A o \in Objs : OnCycle(o)
  /\ heap[1] = <<Member("0", Ref(2))>>
  /\ heap[2] = <<Member("0", Ref(1)), Member("1", Str(Pen))>>
  /\ \A n \in DeepTests : log[n].out = "true" /\ Len(log[n].d) = 2
  /\ Cardinality(DeepTests) = 2

\* the number of predicates of the call: the explicit filters and, with a
\* term, the deep-search predicate
NPred == Len(options.filters) + (IF options.deepSearch # None THEN 1 ELSE 0)

\* the n-th step of the call tested predicate j of record i: j follows j - 1
\* on the same record, which returned true, or is the first after the pull
InPredicateOrder(n) ==
  /\ n > 1
  /\ log[n].j \in 1..NPred
  /\ IF log[n].j = 1
     THEN log[n - 1].op = "pull" /\ log[n - 1].i = log[n].i
     ELSE /\ log[n - 1].op = "test" /\ log[n - 1].i = log[n].i
          /\ log[n - 1].j = log[n].j - 1 /\ log[n - 1].out = "true"

\* the step ran the predicate its position names: explicit filter j on
\* (value, key), the deep-search term last
RanPredicate(n) ==
  LET e == getRange(db, <<>>, None)[log[n].i]
  IN IF log[n].j <= Len(options.filters)
     THEN log[n].out = ApplyFilter(options.filters[log[n].j], e.value, e.key)
     ELSE \/ log[n].out = "throw"
          \/ log[n].out = Bool(DeepMatches(e.value, options.deepSearch[1]))

\* a predicate that returned true is followed by the next one; a pull by the
\* first one
RunsOn(n) ==
  /\ (log[n].op = "pull" /\ NPred > 0)
       => n < Len(log) /\ log[n + 1].op = "test" /\ log[n + 1].j = 1
  /\ (log[n].op = "test" /\ log[n].out = "true" /\ log[n].j < NPred)
       => n < Len(log) /\ log[n + 1].op = "test" /\ log[n + 1].j = log[n].j + 1

\* records are pulled in the order of the range, predicates run in order and
\* stop at the first that does not return true
TestedInOrder ==
  \A n \in 1..Len(log) :
    /\ log[n].op = "pull"
         => log[n].i = 1 + Cardinality({m \in 1..(n - 1) : log[m].op = "pull"})
    /\ log[n].op = "test" => InPredicateOrder(n) /\ RanPredicate(n)
    /\ RunsOn(n)

\* the entries accumulated before step n: the records pulled before it on
\* which no predicate returned anything but true
Accumulated(n) ==
  Cardinality({m \in 1..(n - 1) :
                 /\ log[m].op = "pull"
                 /\ \A x \in 1..(n - 1) :
                      (log[x].op = "test" /\ log[x].i = log[m].i) => log[x].out = "true"})

\* no record is pulled once the accumulator holds limit entries
NoPullAtLimit ==
  \A n \in 1..Len(log) :
    (log[n].op = "pull" /\ options.limit # None) => Accumulated(n) # options.limit[1]

\* C11: the records are tested in the order the range yields them, each
\* record's predicates run explicit filters first and the deep-search
\* predicate last, stopping at the first that returns false; once the
\* accumulator holds limit entries no further record is pulled and no
\* predicate is evaluated on a later record.
C11_OrderedShortCircuitAndStop ==
  pc # "idle" => TestedInOrder /\ NoPullAtLimit

====
